---- MODULE Spec2Model ----
(***************************************************************************)
(* Model of two modules of the sentry repository:                          *)
(*   sentry/api/endpoints/event_ai_suggested_fix.py                        *)
(*       get_openai_policy, trim_frames, describe_event_for_ai and         *)
(*       EventAiSuggestedFixEndpoint.get                                   *)
(*   sentry/search/eap/columns.py                                          *)
(*       SPAN_COLUMN_DEFINITIONS, ResolvedColumn.validate,                 *)
(*       project_context_constructor / VIRTUAL_CONTEXTS                    *)
(***************************************************************************)
EXTENDS Integers, Sequences, FiniteSets, TLC

VARIABLES
    trim,        \* one call of trim_frames: arguments, position, result
    pol,         \* one call of get_openai_policy: receiver results, result
    desc,        \* one call of describe_event_for_ai: event, result
    columns,     \* SPAN_COLUMN_DEFINITIONS as built so far
    colIdx,      \* number of list entries the dict comprehension has consumed
    lookup,      \* last column lookup / validation and its outcome
    vctx,        \* last VirtualColumnContext built by a VIRTUAL_CONTEXTS entry
    apiKey,      \* settings.OPENAI_API_KEY is configured
    receivers,   \* what the receivers connected to openai_policy_check return
    cache,       \* sentry.utils.cache: key -> [value, expires]
    now,         \* wall clock, seconds
    pc,          \* per worker: "idle", "api" (blocked in the API call) or "done"
    req,         \* per worker: the inputs its request has read
    resp,        \* per worker: the response, status and body
    fx,          \* per worker: event store queries, cache reads/writes, API calls
    apiRequest   \* per worker: the chat-completion request it is waiting on

vars == <<trim, pol, desc, columns, colIdx, lookup, vctx,
          apiKey, receivers, cache, now, pc, req, resp, fx, apiRequest>>

trimVars == <<trim>>
polVars == <<pol>>
descVars == <<desc>>
colVars == <<columns, colIdx, lookup, vctx>>
endpointVars == <<apiKey, receivers, cache, now, pc, req, resp, fx, apiRequest>>

(***************************************************************************)
(* Python values and built-ins                                             *)
(***************************************************************************)
\* Python's None, as it appears where the other values are strings
None == "None"

Max(a, b) == IF a >= b THEN a ELSE b
Min(a, b) == IF a <= b THEN a ELSE b

Range(s) == {s[i] : i \in 1..Len(s)}

\* d.get(k): the value under k, None when the key is absent
DictGet(d, k) == IF k \in DOMAIN d THEN d[k] ELSE None

\* int(x / 2): true division followed by truncation towards zero
IntHalf(x) == IF x >= 0 THEN x \div 2 ELSE -((-x) \div 2)

\* a slice bound as Python clamps it for a list of length n
SliceBound(i, n) == IF i < 0 THEN Max(i + n, 0) ELSE Min(i, n)

\* s[start:stop] with Python's 0-based, negative-from-the-end indices
PySlice(s, start, stop) ==
    LET a == SliceBound(start, Len(s))
        b == SliceBound(stop, Len(s))
    IN  IF a < b THEN SubSeq(s, a + 1, b) ELSE <<>>

\* reversed(s)
Reversed(s) == [i \in 1..Len(s) |-> s[Len(s) + 1 - i]]

(***************************************************************************)
(* Bounds of the model                                                     *)
(***************************************************************************)
MaxFrames == 5           \* longest frame list enumerated exhaustively
MaxAllowance == 4        \* largest frame_allowance enumerated with them
MaxSystemFrames == 30    \* system frames appended in the default-allowance runs

(***************************************************************************)
(* event_ai_suggested_fix.py: constants                                    *)
(***************************************************************************)
MAX_STACKTRACE_FRAMES == 30

(***************************************************************************)
(* trim_frames                                                             *)
(***************************************************************************)
\* frame.get("in_app") is truthy
IsInApp(frame) == "in_app" \in DOMAIN frame /\ frame["in_app"] = TRUE

\* positions of the frames the first loop appends to app_frames
AppFrames(frames) ==
    SelectSeq([i \in 1..Len(frames) |-> i], LAMBDA i : IsInApp(frames[i]))

\* positions of the frames the first loop appends to system_frames
SystemFrames(frames) ==
    SelectSeq([i \in 1..Len(frames) |-> i], LAMBDA i : ~IsInApp(frames[i]))

\* positions of the frames trim_frames marks with frame["delete"] = True
DeletedFrames(frames, frame_allowance) ==
    LET frames_len == Len(frames)
        app_frames == AppFrames(frames)
        system_frames == SystemFrames(frames)
        app_count == Len(app_frames)
        system_allowance == Max(frame_allowance - app_count, 0)
        sys_half_max == IntHalf(system_allowance)
        sys_deleted ==
            IF system_allowance # 0
            THEN PySlice(system_frames, sys_half_max, -sys_half_max)
            ELSE system_frames
        remaining == (frames_len - frame_allowance) - Len(sys_deleted)
        app_allowance == app_count - remaining
        app_half_max == IntHalf(app_allowance)
        app_deleted ==
            IF remaining # 0
            THEN PySlice(app_frames, app_half_max, -app_half_max)
            ELSE <<>>
    IN  Range(sys_deleted) \cup Range(app_deleted)

trim_frames(frames, frame_allowance) ==
    IF Len(frames) <= frame_allowance
    THEN frames
    ELSE LET deleted == DeletedFrames(frames, frame_allowance)
             kept == SelectSeq([i \in 1..Len(frames) |-> i],
                               LAMBDA i : i \notin deleted)
         IN  [j \in 1..Len(kept) |-> frames[kept[j]]]

\* frame lists of exactly n frames; "lineno" tells the frames of a list apart
FrameListsOfLen(n) ==
    {[i \in 1..n |-> [in_app |-> f[i], lineno |-> i]] : f \in [1..n -> BOOLEAN]}

FrameLists == UNION {FrameListsOfLen(n) : n \in 0..MaxFrames}

\* a stack of nApp in-app frames below nSys system frames
BlockFrames(nApp, nSys) ==
    [i \in 1..(nApp + nSys) |-> [in_app |-> (i <= nApp), lineno |-> i]]

TrimIdle ==
    [frames |-> <<>>, allowance |-> MAX_STACKTRACE_FRAMES, pc |-> "idle", result |-> <<>>]

TrimCalls ==
    {[frames |-> f, allowance |-> a, pc |-> "call", result |-> <<>>] :
        f \in FrameLists, a \in 1..MaxAllowance}
    \cup
    {[frames |-> BlockFrames(nApp, nSys), allowance |-> MAX_STACKTRACE_FRAMES,
      pc |-> "call", result |-> <<>>] :
        nApp \in (MAX_STACKTRACE_FRAMES - 2)..(MAX_STACKTRACE_FRAMES + 1),
        nSys \in 0..MaxSystemFrames}

\* the call returns
TrimCall ==
    /\ trim.pc = "call"
    /\ trim' = [trim EXCEPT !.pc = "done",
                            !.result = trim_frames(trim.frames, trim.allowance)]
    /\ UNCHANGED <<polVars, descVars, colVars, endpointVars>>

(***************************************************************************)
(* get_openai_policy                                                       *)
(***************************************************************************)
MaxResults == 3          \* most receivers connected to openai_policy_check

\* what a receiver of the openai_policy_check signal may return
PolicyValues == {"allowed", "subprocessor", "individual_consent", "banned"}
ReceiverResults == PolicyValues \cup {None}

SeqsUpTo(S, n) == UNION {[1..k -> S] : k \in 0..n}

\* the loop "for _, new_result in results", from receiver i on
RECURSIVE PolicyLoop(_, _, _)
PolicyLoop(results, i, result) ==
    IF i > Len(results)
    THEN result
    ELSE PolicyLoop(results, i + 1,
                    IF results[i] # None THEN results[i] ELSE result)

\* a policy loop in which the first receiver with an answer wins
RECURSIVE PolicyLoopFirstWins(_, _, _)
PolicyLoopFirstWins(results, i, result) ==
    IF i > Len(results)
    THEN result
    ELSE PolicyLoopFirstWins(results, i + 1,
                    IF results[i] # None /\ result = "allowed" THEN results[i] ELSE result)

get_openai_policy_first_wins(results) == PolicyLoopFirstWins(results, 1, "allowed")

\* results: the values the receivers returned, in send order
get_openai_policy(results) == PolicyLoop(results, 1, "allowed")

PolIdle == [results |-> <<>>, pc |-> "idle", result |-> None]

PolicyCalls ==
    {[results |-> r, pc |-> "call", result |-> None] :
        r \in SeqsUpTo(ReceiverResults, MaxResults)}

\* the call returns
PolicyCall ==
    /\ pol.pc = "call"
    /\ pol' = [pol EXCEPT !.pc = "done", !.result = get_openai_policy(pol.results)]
    /\ UNCHANGED <<trimVars, descVars, colVars, endpointVars>>

(***************************************************************************)
(* describe_event_for_ai                                                   *)
(***************************************************************************)
MaxTags == 2             \* most tags of an event
MaxExceptions == 2       \* most chained exceptions of an event
DeepStack == 32          \* frames of the deepest stack trace in the event universe

BLOCKED_TAGS ==
    {"user", "server_name", "release", "handled", "client_os", "client_os.name",
     "browser", "browser.name", "environment", "runtime", "device", "device.family",
     "gpu", "gpu.name", "gpu.vendor", "url", "trace", "otel"}

\* a variant of the block list that lets the "url" tag through
BLOCKED_TAGS_without_url == BLOCKED_TAGS \ {"url"}

EmptyDict == [k \in {} |-> None]

\* the strings of the tag universe, in Python's (code point) order
StrOrder == <<"a", "b", "environment", "level", "logger", "url">>
StrRank(s) == CHOOSE i \in 1..Len(StrOrder) : StrOrder[i] = s

TagKeys == {"environment", "level", "logger", "url"}
TagValues == {"a", "b"}

\* [k1, v1] < [k2, v2] as Python compares two-element lists of strings
PairLess(p, q) ==
    \/ StrRank(p[1]) < StrRank(q[1])
    \/ StrRank(p[1]) = StrRank(q[1]) /\ StrRank(p[2]) < StrRank(q[2])

\* insert p into the sorted list s after every element not greater than it
RECURSIVE SortedInsert(_, _)
SortedInsert(s, p) ==
    IF s = <<>> THEN <<p>>
    ELSE IF PairLess(p, Head(s)) THEN <<p>> \o s
    ELSE <<Head(s)>> \o SortedInsert(Tail(s), p)

\* sorted(pairs): stable, ascending
RECURSIVE Sorted(_)
Sorted(pairs) ==
    IF pairs = <<>> THEN <<>>
    ELSE SortedInsert(Sorted(SubSeq(pairs, 1, Len(pairs) - 1)), pairs[Len(pairs)])

\* OrderedDict as the list of its items: d[k] = v keeps k's place, or appends
DictSet(d, k, v) ==
    IF \E i \in 1..Len(d) : d[i][1] = k
    THEN [i \in 1..Len(d) |-> IF d[i][1] = k THEN <<k, v>> ELSE d[i]]
    ELSE Append(d, <<k, v>>)

DictKeys(d) == {d[i][1] : i \in 1..Len(d)}

\* the loop over sorted(event["tags"]), from item i on, against a block list
RECURSIVE TagLoop(_, _, _, _)
TagLoop(items, i, tags, blocked) ==
    IF i > Len(items)
    THEN tags
    ELSE TagLoop(items, i + 1,
                 IF items[i][1] \notin blocked
                 THEN DictSet(tags, items[i][1], items[i][2])
                 ELSE tags,
                 blocked)

\* str.strip() on the context lines of the event universe
Strip(line) ==
    CASE line = "    return a / b" -> "return a / b"
      [] line = "   " -> ""
      [] OTHER -> line

\* (frame.get("context_line") or "").strip()
ContextLine(frame) ==
    IF "context_line" \in DOMAIN frame THEN Strip(frame["context_line"]) ELSE ""

\* one stack_frame; first_in_app is False throughout, so "crashed_here" is never set
StackFrame(frame) ==
    LET first_in_app == FALSE
        base == [func |-> DictGet(frame, "function"), module |-> DictGet(frame, "module"),
                 file |-> DictGet(frame, "filename"), line |-> DictGet(frame, "lineno")]
        in_app == IF IsInApp(frame) THEN [in_app |-> TRUE] ELSE EmptyDict
        crashed == IF frame["in_app"] /\ first_in_app
                   THEN [crashed_here |-> TRUE] ELSE EmptyDict
        code == IF frame["in_app"] /\ ContextLine(frame) # ""
                THEN [code |-> ContextLine(frame)] ELSE EmptyDict
    IN  base @@ in_app @@ crashed @@ code

\* exc.get("stacktrace", {}).get("frames"), <<>> when there is none
ExcFrames(exc) ==
    IF "stacktrace" \in DOMAIN exc /\ "frames" \in DOMAIN exc["stacktrace"]
    THEN exc["stacktrace"]["frames"]
    ELSE <<>>

\* the stack trace of one exception: most recent call first, then trimmed
DescribeStacktrace(exc) ==
    LET frames == Reversed(ExcFrames(exc))
    IN  trim_frames([i \in 1..Len(frames) |-> StackFrame(frames[i])],
                    MAX_STACKTRACE_FRAMES)

\* the dict built for the exception at position idx (0-based) of the reversed list
DescribeException(exc, idx) ==
    LET mechanism == IF "mechanism" \in DOMAIN exc THEN exc["mechanism"] ELSE EmptyDict
        previous == IF idx > 0
                    THEN [raised_during_handling_of_previous_exception |-> TRUE]
                    ELSE EmptyDict
        base == [number |-> idx + 1, type |-> exc["type"], message |-> DictGet(exc, "value")]
        meta == IF "meta" \in DOMAIN mechanism /\ DOMAIN mechanism["meta"] # {}
                THEN [meta |-> mechanism["meta"]] ELSE EmptyDict
        unhandled == IF "handled" \in DOMAIN mechanism /\ mechanism["handled"] = FALSE
                     THEN [unhandled |-> TRUE] ELSE EmptyDict
        stacktrace == IF ExcFrames(exc) # <<>>
                      THEN [stacktrace |-> DescribeStacktrace(exc)] ELSE EmptyDict
    IN  previous @@ base @@ meta @@ unhandled @@ stacktrace

\* event.get("exception", {}).get("values", ())
ExcValues(event) ==
    IF "exception" \in DOMAIN event /\ "values" \in DOMAIN event["exception"]
    THEN event["exception"]["values"]
    ELSE <<>>

\* data["exceptions"]
DescribeExceptions(event) ==
    LET values == Reversed(PySlice(ExcValues(event), 0, MAX_STACKTRACE_FRAMES))
    IN  [i \in 1..Len(values) |-> DescribeException(values[i], i - 1)]

\* the description with the given block list applied to the tags
DescribeWith(event, blocked) ==
    LET data == [tags |-> TagLoop(Sorted(event["tags"]), 1, <<>>, blocked),
                 exceptions |-> DescribeExceptions(event)]
        msg == DictGet(event, "message")
    IN  IF msg # None /\ msg # "" THEN data @@ [message |-> msg] ELSE data

\* a description that forwards the "url" tag
describe_event_for_ai_leaks_url(event) == DescribeWith(event, BLOCKED_TAGS_without_url)

describe_event_for_ai(event) == DescribeWith(event, BLOCKED_TAGS)

(***************************************************************************)
(* The events the model describes                                          *)
(***************************************************************************)
FrameDivide ==
    [function |-> "divide", module |-> "app.math", filename |-> "app/math.py",
     lineno |-> 7, in_app |-> TRUE, context_line |-> "    return a / b"]
FrameHandler ==
    [function |-> "handler", lineno |-> 41, in_app |-> TRUE, context_line |-> "   "]
FrameDispatch ==
    [function |-> "dispatch", module |-> "django.core", filename |-> "django/core.py",
     lineno |-> 120, in_app |-> FALSE]

\* a recursion: one in-app frame under DeepStack - 1 library frames
DeepFrames ==
    [i \in 1..DeepStack |-> IF i = 1 THEN FrameHandler
                            ELSE [function |-> "recurse", lineno |-> i, in_app |-> FALSE]]

ExcDivision ==
    [type |-> "ZeroDivisionError", value |-> "division by zero",
     mechanism |-> [handled |-> FALSE, meta |-> [signal |-> "SIGFPE"]],
     stacktrace |-> [frames |-> <<FrameDispatch, FrameHandler, FrameDivide>>]]
ExcBare == [type |-> "ValueError"]
ExcRecursion ==
    [type |-> "RecursionError", value |-> "maximum recursion depth exceeded",
     mechanism |-> [handled |-> TRUE], stacktrace |-> [frames |-> DeepFrames]]

ExcUniverse == {ExcDivision, ExcBare, ExcRecursion}

TagLists == SeqsUpTo(TagKeys \X TagValues, MaxTags)

ExceptionChoices ==
    {EmptyDict} \cup
    {[exception |-> [values |-> v]] : v \in SeqsUpTo(ExcUniverse, MaxExceptions)}

MessageChoices == {EmptyDict, [message |-> ""], [message |-> "boom"]}

EventUniverse ==
    {[tags |-> t] @@ e @@ m : t \in TagLists, e \in ExceptionChoices, m \in MessageChoices}

DescIdle == [event |-> [tags |-> <<>>], pc |-> "idle", result |-> EmptyDict]

DescribeCalls == {[event |-> e, pc |-> "call", result |-> EmptyDict] : e \in EventUniverse}

\* the call returns
DescribeCall ==
    /\ desc.pc = "call"
    /\ desc' = [desc EXCEPT !.pc = "done", !.result = describe_event_for_ai(desc.event)]
    /\ UNCHANGED <<trimVars, polVars, colVars, endpointVars>>

(***************************************************************************)
(* columns.py: SPAN_COLUMN_DEFINITIONS                                     *)
(***************************************************************************)
MaxProjects == 2         \* most projects in SnubaParams.project_id_map

\* the list with "span.description" published a second time as "description"
SPAN_COLUMN_LIST_duplicate_alias == <<
    [public_alias |-> "id", internal_name |-> "span_id", search_type |-> "string",
     internal_type |-> None, validator |-> "is_span_id"],
    [public_alias |-> "organization.id", internal_name |-> "organization_id", search_type |-> "string",
     internal_type |-> None, validator |-> None],
    [public_alias |-> "span.action", internal_name |-> "action", search_type |-> "string",
     internal_type |-> None, validator |-> None],
    [public_alias |-> "description", internal_name |-> "name", search_type |-> "string",
     internal_type |-> None, validator |-> None],
    [public_alias |-> "description", internal_name |-> "name", search_type |-> "string",
     internal_type |-> None, validator |-> None],
    [public_alias |-> "message", internal_name |-> "name", search_type |-> "string",
     internal_type |-> None, validator |-> None],
    [public_alias |-> "span.domain", internal_name |-> "attr_str[domain]", search_type |-> "string",
     internal_type |-> None, validator |-> None],
    [public_alias |-> "span.group", internal_name |-> "attr_str[group]", search_type |-> "string",
     internal_type |-> None, validator |-> None],
    [public_alias |-> "span.op", internal_name |-> "attr_str[op]", search_type |-> "string",
     internal_type |-> None, validator |-> None],
    [public_alias |-> "span.category", internal_name |-> "attr_str[category]", search_type |-> "string",
     internal_type |-> None, validator |-> None],
    [public_alias |-> "span.self_time", internal_name |-> "exclusive_time_ms", search_type |-> "duration",
     internal_type |-> None, validator |-> None],
    [public_alias |-> "span.status", internal_name |-> "attr_str[status]", search_type |-> "string",
     internal_type |-> None, validator |-> None],
    [public_alias |-> "trace", internal_name |-> "trace_id", search_type |-> "string",
     internal_type |-> None, validator |-> "is_event_id"],
    [public_alias |-> "messaging.destination.name", internal_name |-> "attr_str[messaging.destination.name]", search_type |-> "string",
     internal_type |-> None, validator |-> None],
    [public_alias |-> "messaging.message.id", internal_name |-> "attr_str[messaging.message.id]", search_type |-> "string",
     internal_type |-> None, validator |-> None],
    [public_alias |-> "span.status_code", internal_name |-> "attr_str[status_code]", search_type |-> "string",
     internal_type |-> None, validator |-> None],
    [public_alias |-> "replay.id", internal_name |-> "attr_str[replay_id]", search_type |-> "string",
     internal_type |-> None, validator |-> None],
    [public_alias |-> "span.ai.pipeline.group", internal_name |-> "attr_str[ai_pipeline_group]", search_type |-> "string",
     internal_type |-> None, validator |-> None],
    [public_alias |-> "trace.status", internal_name |-> "attr_str[trace.status]", search_type |-> "string",
     internal_type |-> None, validator |-> None],
    [public_alias |-> "browser.name", internal_name |-> "attr_str[browser.name]", search_type |-> "string",
     internal_type |-> None, validator |-> None],
    [public_alias |-> "ai.total_cost", internal_name |-> "attr_num[ai.total_cost]", search_type |-> "number",
     internal_type |-> None, validator |-> None],
    [public_alias |-> "ai.total_tokens.used", internal_name |-> "attr_num[ai_total_tokens_used]", search_type |-> "number",
     internal_type |-> None, validator |-> None],
    [public_alias |-> "project", internal_name |-> "project_id", search_type |-> "string",
     internal_type |-> "INT", validator |-> None],
    [public_alias |-> "project.slug", internal_name |-> "project_id", search_type |-> "string",
     internal_type |-> "INT", validator |-> None]
>>

\* the ResolvedColumn list the dict comprehension iterates, in source order
SPAN_COLUMN_LIST == <<
    [public_alias |-> "id", internal_name |-> "span_id", search_type |-> "string",
     internal_type |-> None, validator |-> "is_span_id"],
    [public_alias |-> "organization.id", internal_name |-> "organization_id", search_type |-> "string",
     internal_type |-> None, validator |-> None],
    [public_alias |-> "span.action", internal_name |-> "action", search_type |-> "string",
     internal_type |-> None, validator |-> None],
    [public_alias |-> "span.description", internal_name |-> "name", search_type |-> "string",
     internal_type |-> None, validator |-> None],
    [public_alias |-> "description", internal_name |-> "name", search_type |-> "string",
     internal_type |-> None, validator |-> None],
    [public_alias |-> "message", internal_name |-> "name", search_type |-> "string",
     internal_type |-> None, validator |-> None],
    [public_alias |-> "span.domain", internal_name |-> "attr_str[domain]", search_type |-> "string",
     internal_type |-> None, validator |-> None],
    [public_alias |-> "span.group", internal_name |-> "attr_str[group]", search_type |-> "string",
     internal_type |-> None, validator |-> None],
    [public_alias |-> "span.op", internal_name |-> "attr_str[op]", search_type |-> "string",
     internal_type |-> None, validator |-> None],
    [public_alias |-> "span.category", internal_name |-> "attr_str[category]", search_type |-> "string",
     internal_type |-> None, validator |-> None],
    [public_alias |-> "span.self_time", internal_name |-> "exclusive_time_ms", search_type |-> "duration",
     internal_type |-> None, validator |-> None],
    [public_alias |-> "span.status", internal_name |-> "attr_str[status]", search_type |-> "string",
     internal_type |-> None, validator |-> None],
    [public_alias |-> "trace", internal_name |-> "trace_id", search_type |-> "string",
     internal_type |-> None, validator |-> "is_event_id"],
    [public_alias |-> "messaging.destination.name", internal_name |-> "attr_str[messaging.destination.name]", search_type |-> "string",
     internal_type |-> None, validator |-> None],
    [public_alias |-> "messaging.message.id", internal_name |-> "attr_str[messaging.message.id]", search_type |-> "string",
     internal_type |-> None, validator |-> None],
    [public_alias |-> "span.status_code", internal_name |-> "attr_str[status_code]", search_type |-> "string",
     internal_type |-> None, validator |-> None],
    [public_alias |-> "replay.id", internal_name |-> "attr_str[replay_id]", search_type |-> "string",
     internal_type |-> None, validator |-> None],
    [public_alias |-> "span.ai.pipeline.group", internal_name |-> "attr_str[ai_pipeline_group]", search_type |-> "string",
     internal_type |-> None, validator |-> None],
    [public_alias |-> "trace.status", internal_name |-> "attr_str[trace.status]", search_type |-> "string",
     internal_type |-> None, validator |-> None],
    [public_alias |-> "browser.name", internal_name |-> "attr_str[browser.name]", search_type |-> "string",
     internal_type |-> None, validator |-> None],
    [public_alias |-> "ai.total_cost", internal_name |-> "attr_num[ai.total_cost]", search_type |-> "number",
     internal_type |-> None, validator |-> None],
    [public_alias |-> "ai.total_tokens.used", internal_name |-> "attr_num[ai_total_tokens_used]", search_type |-> "number",
     internal_type |-> None, validator |-> None],
    [public_alias |-> "project", internal_name |-> "project_id", search_type |-> "string",
     internal_type |-> "INT", validator |-> None],
    [public_alias |-> "project.slug", internal_name |-> "project_id", search_type |-> "string",
     internal_type |-> "INT", validator |-> None]
>>

\* {column.public_alias: column for column in ...} after one more column
DictPut(d, k, v) == [x \in DOMAIN d \cup {k} |-> IF x = k THEN v ELSE d[x]]

\* one iteration of the comprehension building SPAN_COLUMN_DEFINITIONS
ColumnsBuild ==
    /\ colIdx < Len(SPAN_COLUMN_LIST)
    /\ LET column == SPAN_COLUMN_LIST[colIdx + 1]
       IN  columns' = DictPut(columns, column.public_alias, column)
    /\ colIdx' = colIdx + 1
    /\ UNCHANGED <<lookup, vctx, trimVars, polVars, descVars, endpointVars>>

\* ResolvedColumn.validate(value); valid is what self.validator(value) returns
Validate(column, valid) ==
    IF column.validator # None /\ ~valid THEN "InvalidSearchQuery" ELSE "ok"

\* a query value is validated against the column registered under alias
ColumnValidate(alias, valid) ==
    /\ colIdx = Len(SPAN_COLUMN_LIST)
    /\ alias \in DOMAIN columns
    /\ lookup' = [alias |-> alias, internal_name |-> columns[alias].internal_name,
                  valid |-> valid, outcome |-> Validate(columns[alias], valid)]
    /\ UNCHANGED <<columns, colIdx, vctx, trimVars, polVars, descVars, endpointVars>>

\* str(project_id) for the project ids of the model
Str(n) == <<"1", "2", "3", "4", "5", "6", "7", "8", "9">>[n]

ProjectIds == 1..MaxProjects
ProjectNames == {"backend", "frontend"}
ProjectIdMaps == UNION {[ids -> ProjectNames] : ids \in SUBSET ProjectIds}

\* project_context_constructor(column_name)(params)
project_context_constructor(column_name, project_id_map) ==
    [from_column_name |-> "project_id",
     to_column_name |-> column_name,
     value_map |-> [k \in {Str(id) : id \in DOMAIN project_id_map} |->
                       project_id_map[CHOOSE id \in DOMAIN project_id_map : Str(id) = k]]]

VIRTUAL_CONTEXTS == {"project", "project.slug"}

\* VIRTUAL_CONTEXTS[name](params)
VirtualContext(name, project_id_map) ==
    /\ colIdx = Len(SPAN_COLUMN_LIST)
    /\ name \in VIRTUAL_CONTEXTS
    /\ vctx' = project_context_constructor(name, project_id_map)
    /\ UNCHANGED <<columns, colIdx, lookup, trimVars, polVars, descVars, endpointVars>>

NoLookup == [alias |-> None, internal_name |-> None, valid |-> TRUE, outcome |-> None]
NoContext == [from_column_name |-> None, to_column_name |-> None, value_map |-> EmptyDict]

(***************************************************************************)
(* EventAiSuggestedFixEndpoint.get                                         *)
(***************************************************************************)
TickSeconds == 150       \* seconds between two observations of the clock
MaxClock == 300          \* the clock stops here

\* the timeout argument of cache.set
SUGGESTION_TIMEOUT == 300

FUN_PROMPT_CHOICES ==
    <<"[haiku about the error]", "[hip hop rhyme about the error]",
      "[4 line rhyme about the error]", "[2 stanza rhyme about the error]",
      "[anti joke about the error]">>

\* PROMPT.replace("___FUN_PROMPT___", choice)
Prompt(choice) == [template |-> "PROMPT", fun_prompt |-> choice]

\* what eventstore.get_event_by_id finds: e1 and e2 are events of one group
EVENTS ==
    [id \in {"e1", "e2", "e3"} |->
        CASE id = "e1" -> [primary_hash |-> "h1",
                           data |-> [tags |-> <<<<"url", "a">>, <<"level", "b">>>>,
                                     exception |-> [values |-> <<ExcDivision>>],
                                     message |-> "boom"]]
          [] id = "e2" -> [primary_hash |-> "h1",
                           data |-> [tags |-> <<<<"environment", "a">>>>,
                                     exception |-> [values |-> <<ExcBare, ExcDivision>>]]]
          [] id = "e3" -> [primary_hash |-> "h2",
                           data |-> [tags |-> <<>>, message |-> ""]]]

EventIds == DOMAIN EVENTS \cup {"e404"}

\* the results the connected openai_policy_check receivers may return
PolicyScenarios ==
    {<<>>, <<"subprocessor">>, <<"individual_consent", None>>, <<"allowed", "banned">>}

\* request.GET.get("consent")
ConsentValues == {None, "yes", "no"}

\* response["choices"][0]["message"]["content"]
Replies == {"fix A", "fix B"}

\* the web workers that run the handler side by side
Workers == {"w1", "w2"}

\* a gate that forgets the OPENAI_API_KEY setting
FeatureGateIgnoresKey(flag) == flag

\* settings.OPENAI_API_KEY and features.has("organizations:open-ai-suggestion", ...)
FeatureGate(flag) == apiKey /\ flag

\* a policy check that takes any consent parameter for consent
PolicyFailureAnyConsent(policy, consent) ==
    IF policy = "subprocessor" THEN "subprocessor"
    ELSE IF policy = "individual_consent"
         THEN IF consent = None THEN "individual_consent" ELSE None
         ELSE None

\* policy_failure; an unknown policy is logged and let through
PolicyFailure(policy, consent) ==
    IF policy = "subprocessor" THEN "subprocessor"
    ELSE IF policy = "individual_consent"
         THEN IF consent # "yes" THEN "individual_consent" ELSE None
         ELSE None

\* a cache key shared by all events
CacheKeyShared(event) == <<"ai:", "">>

\* "ai:" + event.get_primary_hash()
CacheKey(event) == <<"ai:", event.primary_hash>>

\* cache.get(key) at time t
CacheGet(c, key, t) ==
    IF key \in DOMAIN c /\ t < c[key].expires THEN c[key].value ELSE None

\* cache.set(key, value, timeout) at time t
CacheSet(c, key, value, timeout, t) ==
    DictPut(c, key, [value |-> value, expires |-> t + timeout])

NoEffects ==
    [store_queries |-> 0, policy_checks |-> 0, cache_gets |-> 0, cache_sets |-> 0,
     api_calls |-> 0]
NoApiRequest == [prompt |-> EmptyDict, content |-> EmptyDict]
NoRequest == [flag |-> FALSE, event_id |-> None, consent |-> None]
NoResponse == [status |-> 0, body |-> EmptyDict]

\* raise ResourceDoesNotExist
NotFound == [status |-> 404, body |-> [detail |-> "ResourceDoesNotExist"]]

\* the exception openai.ChatCompletion.create raised leaves the handler
ServerError == [status |-> 500, body |-> [detail |-> "openai.error.OpenAIError"]]

\* worker w has read the inputs request and ends with response
Answer(w, request, response, effects) ==
    /\ pc' = [pc EXCEPT ![w] = "done"]
    /\ req' = [req EXCEPT ![w] = request]
    /\ resp' = [resp EXCEPT ![w] = response]
    /\ fx' = [fx EXCEPT ![w] = effects]
    /\ apiRequest' = [apiRequest EXCEPT ![w] = NoApiRequest]
    /\ UNCHANGED cache

\* cache.get for an event that passed the checks; on a miss the worker sends the
\* chat-completion request and blocks in openai.ChatCompletion.create
Suggest(w, request, event, effects) ==
    LET cache_key == CacheKey(event)
        suggestion == CacheGet(cache, cache_key, now)
        read == [effects EXCEPT !.cache_gets = 1]
    IN  IF suggestion = None
        THEN \E choice \in Range(FUN_PROMPT_CHOICES) :
                /\ pc' = [pc EXCEPT ![w] = "api"]
                /\ req' = [req EXCEPT ![w] = request]
                /\ resp' = [resp EXCEPT ![w] = NoResponse]
                /\ fx' = [fx EXCEPT ![w] = [read EXCEPT !.api_calls = 1]]
                /\ apiRequest' = [apiRequest EXCEPT ![w] =
                                    [prompt |-> Prompt(choice),
                                     content |-> describe_event_for_ai(event.data)]]
                /\ UNCHANGED cache
        ELSE Answer(w, request, [status |-> 200, body |-> [suggestion |-> suggestion]],
                    read)

\* the policy check and what follows it, for an event the store found; the consent
\* parameter is read only under the "individual_consent" policy
CheckPolicy(w, flag, event_id) ==
    LET event == EVENTS[event_id]
        policy == get_openai_policy(receivers)
        checked == [NoEffects EXCEPT !.store_queries = 1, !.policy_checks = 1]
    IN  \E consent \in IF policy = "individual_consent" THEN ConsentValues ELSE {None} :
            LET request == [flag |-> flag, event_id |-> event_id, consent |-> consent]
                policy_failure == PolicyFailure(policy, consent)
            IN  IF policy_failure # None
                THEN Answer(w, request,
                            [status |-> 403, body |-> [restriction |-> policy_failure]],
                            checked)
                ELSE Suggest(w, request, event, checked)

\* GET /projects/{org}/{project}/events/{event_id}/ai-fix-suggest/ on worker w, up to
\* its response or to the call of the external API; the event store is asked only
\* when the feature check passed
get(w, flag, event_id) ==
    /\ pc[w] # "api"
    /\ IF ~FeatureGate(flag)
       THEN /\ event_id = None
            /\ Answer(w, [NoRequest EXCEPT !.flag = flag], NotFound, NoEffects)
       ELSE /\ event_id # None
            /\ IF event_id \notin DOMAIN EVENTS
               THEN Answer(w, [NoRequest EXCEPT !.flag = flag, !.event_id = event_id],
                           NotFound, [NoEffects EXCEPT !.store_queries = 1])
               ELSE CheckPolicy(w, flag, event_id)
    /\ UNCHANGED <<apiKey, receivers, now, trimVars, polVars, descVars, colVars>>

\* openai.ChatCompletion.create returns on worker w: cache.set and the response
ApiReply(w, reply) ==
    /\ pc[w] = "api"
    /\ cache' = CacheSet(cache, CacheKey(EVENTS[req[w].event_id]), reply,
                         SUGGESTION_TIMEOUT, now)
    /\ pc' = [pc EXCEPT ![w] = "done"]
    /\ resp' = [resp EXCEPT ![w] = [status |-> 200, body |-> [suggestion |-> reply]]]
    /\ fx' = [fx EXCEPT ![w].cache_sets = 1]
    /\ apiRequest' = [apiRequest EXCEPT ![w] = NoApiRequest]
    /\ UNCHANGED <<apiKey, receivers, now, req, trimVars, polVars, descVars, colVars>>

\* openai.ChatCompletion.create raises on worker w: the exception leaves the handler
ApiError(w) ==
    /\ pc[w] = "api"
    /\ pc' = [pc EXCEPT ![w] = "done"]
    /\ resp' = [resp EXCEPT ![w] = ServerError]
    /\ apiRequest' = [apiRequest EXCEPT ![w] = NoApiRequest]
    /\ UNCHANGED <<apiKey, receivers, cache, now, req, fx,
                   trimVars, polVars, descVars, colVars>>

\* time passes
Tick ==
    /\ now + TickSeconds <= MaxClock
    /\ now' = now + TickSeconds
    /\ UNCHANGED <<apiKey, receivers, cache, pc, req, resp, fx, apiRequest,
                   trimVars, polVars, descVars, colVars>>

(***************************************************************************)
(* Specifications                                                          *)
(***************************************************************************)
PureIdle == trim = TrimIdle /\ pol = PolIdle /\ desc = DescIdle

ColumnsEmpty ==
    /\ columns = EmptyDict
    /\ colIdx = 0
    /\ lookup = NoLookup
    /\ vctx = NoContext

\* the table after the module has been imported
ColumnsLoaded ==
    /\ columns = [a \in {SPAN_COLUMN_LIST[i].public_alias : i \in 1..Len(SPAN_COLUMN_LIST)} |->
                    SPAN_COLUMN_LIST[CHOOSE i \in 1..Len(SPAN_COLUMN_LIST) :
                        /\ SPAN_COLUMN_LIST[i].public_alias = a
                        /\ \A j \in (i + 1)..Len(SPAN_COLUMN_LIST) :
                              SPAN_COLUMN_LIST[j].public_alias # a]]
    /\ colIdx = Len(SPAN_COLUMN_LIST)
    /\ lookup = NoLookup
    /\ vctx = NoContext

\* no request has been made
WorkersIdle ==
    /\ cache = EmptyDict
    /\ now = 0
    /\ pc = [w \in Workers |-> "idle"]
    /\ req = [w \in Workers |-> NoRequest]
    /\ resp = [w \in Workers |-> NoResponse]
    /\ fx = [w \in Workers |-> NoEffects]
    /\ apiRequest = [w \in Workers |-> NoApiRequest]

EndpointIdle ==
    /\ apiKey = TRUE
    /\ receivers = <<>>
    /\ WorkersIdle

\* the endpoint serving requests
Init ==
    /\ apiKey \in BOOLEAN
    /\ receivers \in PolicyScenarios
    /\ WorkersIdle
    /\ PureIdle
    /\ ColumnsLoaded

Next ==
    \/ \E w \in Workers, flag \in BOOLEAN, event_id \in EventIds \cup {None} :
          get(w, flag, event_id)
    \/ \E w \in Workers, reply \in Replies : ApiReply(w, reply)
    \/ \E w \in Workers : ApiError(w)
    \/ Tick

Spec == Init /\ [][Next]_vars

\* calls of trim_frames
InitTrim ==
    /\ trim \in TrimCalls
    /\ pol = PolIdle /\ desc = DescIdle
    /\ ColumnsLoaded
    /\ EndpointIdle

SpecTrim == InitTrim /\ [][TrimCall]_vars

\* calls of get_openai_policy
InitPolicy ==
    /\ pol \in PolicyCalls
    /\ trim = TrimIdle /\ desc = DescIdle
    /\ ColumnsLoaded
    /\ EndpointIdle

SpecPolicy == InitPolicy /\ [][PolicyCall]_vars

\* calls of describe_event_for_ai
InitDescribe ==
    /\ desc \in DescribeCalls
    /\ trim = TrimIdle /\ pol = PolIdle
    /\ ColumnsLoaded
    /\ EndpointIdle

SpecDescribe == InitDescribe /\ [][DescribeCall]_vars

\* import of columns.py, then use of the table
InitColumns ==
    /\ ColumnsEmpty
    /\ PureIdle
    /\ EndpointIdle

NextColumns ==
    \/ ColumnsBuild
    \/ \E alias \in DOMAIN columns, valid \in BOOLEAN : ColumnValidate(alias, valid)
    \/ \E name \in VIRTUAL_CONTEXTS, m \in ProjectIdMaps : VirtualContext(name, m)

SpecColumns == InitColumns /\ [][NextColumns]_vars

(***************************************************************************)
(* Properties                                                              *)
(***************************************************************************)
\* the answer of the last receiver that gave one, "allowed" when none did
LastAnswer(results) ==
    LET answered == {i \in 1..Len(results) : results[i] # None}
    IN  IF answered = {} THEN "allowed"
        ELSE results[CHOOSE i \in answered : \A j \in answered : j <= i]

\* the policy restricts the request r
Restricted(r) ==
    \/ LastAnswer(receivers) = "subprocessor"
    \/ LastAnswer(receivers) = "individual_consent" /\ r.consent # "yes"

\* the request r passes the feature and event checks
PassesChecks(r) == apiKey /\ r.flag /\ r.event_id \in DOMAIN EVENTS

\* the cache key of the event the request r names
KeyOf(r) == <<"ai:", EVENTS[r.event_id].primary_hash>>

\* the value the cache holds under k at the current time, None if none
Held(k) == IF k \in DOMAIN cache /\ now < cache[k].expires THEN cache[k].value ELSE None

\* worker w ends a request that passed all checks and found no value in the cache
MissedAndDone(w) ==
    /\ pc[w] = "done"
    /\ PassesChecks(req[w]) /\ ~Restricted(req[w])
    /\ fx[w].api_calls = 1

\* C1 as stated: every request that passes the checks and finds no value in the
\* cache calls the API once, has the reply stored under its key and returns that
\* reply.
C1_AsStated ==
    \A w \in Workers :
        MissedAndDone(w) =>
            /\ resp[w].status = 200
            /\ DOMAIN resp[w].body = {"suggestion"}
            /\ fx[w].cache_sets = 1
            /\ KeyOf(req[w]) \in DOMAIN cache

\* worker w starts a request that passes all checks
StartsPassing(w) ==
    /\ pc[w] # "api"
    /\ <<pc[w], req[w], resp[w], fx[w], apiRequest[w]>>
         # <<pc'[w], req'[w], resp'[w], fx'[w], apiRequest'[w]>>
    /\ PassesChecks(req'[w]) /\ ~Restricted(req'[w])

\* the steps of a request of worker w that passes the checks
CacheAsideStep(w) ==
    /\ StartsPassing(w) =>
          /\ cache' = cache
          /\ fx'[w].cache_gets = 1
          /\ fx'[w].cache_sets = 0
          /\ IF Held(KeyOf(req'[w])) # None
             THEN /\ pc'[w] = "done"
                  /\ resp'[w] = [status |-> 200,
                                 body |-> [suggestion |-> Held(KeyOf(req'[w]))]]
                  /\ fx'[w].api_calls = 0
             ELSE /\ pc'[w] = "api"
                  /\ fx'[w].api_calls = 1
                  /\ resp'[w].status = 0
    /\ (pc[w] = "api" /\ pc'[w] # "api") =>
          /\ pc'[w] = "done"
          /\ fx'[w].api_calls = 1
          /\ \/ /\ resp'[w].status = 200
                /\ DOMAIN resp'[w].body = {"suggestion"}
                /\ resp'[w].body.suggestion \in Replies
                /\ fx'[w].cache_sets = 1
                /\ KeyOf(req[w]) \in DOMAIN cache'
                /\ cache'[KeyOf(req[w])] =
                      [value |-> resp'[w].body.suggestion, expires |-> now + 300]
                /\ \A other \in DOMAIN cache \ {KeyOf(req[w])} :
                      other \in DOMAIN cache' /\ cache'[other] = cache[other]
             \/ /\ resp'[w].status = 500
                /\ "suggestion" \notin DOMAIN resp'[w].body
                /\ fx'[w].cache_sets = 0
                /\ cache' = cache

\* the cache changes only when a blocked worker gets its reply
CacheWrittenByReply ==
    cache' # cache => \E w \in Workers : pc[w] = "api" /\ resp'[w].status = 200

\* C1: a request that passes the checks reads the cache once under "ai:" + primary
\* hash; a value found there is returned without an API call or a cache write; on a
\* miss the API is called exactly once, and when the call returns its reply is
\* stored under that key for 300 seconds and returned, while when it raises nothing
\* is stored and no suggestion is returned; the cache is written by nothing else.
C1_CacheAside ==
    [][(\A w \in Workers : CacheAsideStep(w)) /\ CacheWrittenByReply]_vars

\* two overlapping requests for events of one hash both missed; the second reply
\* replaced the live entry of the first, and the two responses differ
C1_Witness ==
    /\ pc = [w \in Workers |-> "done"]
    /\ req["w1"].event_id = "e1" /\ req["w2"].event_id = "e2"
    /\ resp["w1"] = [status |-> 200, body |-> [suggestion |-> "fix A"]]
    /\ resp["w2"] = [status |-> 200, body |-> [suggestion |-> "fix B"]]
    /\ fx["w1"].api_calls = 1 /\ fx["w2"].api_calls = 1
    /\ now = 0
    /\ Held(<<"ai:", "h1">>) = "fix A"

\* C2: the description has no tag key of BLOCKED_TAGS, has every other tag key of
\* the event, and its top-level keys are "tags", "exceptions" and, only when the
\* event has a non-empty message, "message".
C2_Sanitized ==
    desc.pc = "done" =>
        LET eventKeys == {desc.event["tags"][i][1] : i \in 1..Len(desc.event["tags"])}
            hasMessage == "message" \in DOMAIN desc.event /\ desc.event["message"] # ""
        IN  /\ DictKeys(desc.result["tags"]) \cap BLOCKED_TAGS = {}
            /\ eventKeys \ BLOCKED_TAGS \subseteq DictKeys(desc.result["tags"])
            /\ DOMAIN desc.result =
                  {"tags", "exceptions"} \cup (IF hasMessage THEN {"message"} ELSE {})

\* an event with a blocked tag, a free tag, a message and an exception is described
C2_Witness ==
    /\ desc.pc = "done"
    /\ Len(desc.event["tags"]) = 2
    /\ desc.event["tags"][1][1] = "url"
    /\ desc.event["tags"][2][1] = "level"
    /\ "message" \in DOMAIN desc.event /\ desc.event["message"] = "boom"
    /\ Len(desc.result["exceptions"]) = 2
    /\ DictKeys(desc.result["tags"]) = {"level"}

\* C3: SPAN_COLUMN_DEFINITIONS maps every key to a column with that public alias
\* and a non-empty internal name, no listed definition is overwritten while the
\* table is built (24 entries in the end), and aliases may share an internal name.
C3_ColumnTable ==
    /\ Cardinality(DOMAIN columns) = colIdx
    /\ \A k \in DOMAIN columns :
          columns[k].public_alias = k /\ columns[k].internal_name # ""
    /\ colIdx = Len(SPAN_COLUMN_LIST) =>
          /\ Cardinality(DOMAIN columns) = 24
          /\ \A k \in {"description", "span.description", "message"} :
                columns[k].internal_name = "name"
          /\ \A k \in {"project", "project.slug"} :
                columns[k].internal_name = "project_id"

\* the table is complete and "message" has been looked up
C3_Witness ==
    /\ colIdx = 24
    /\ lookup.alias = "message"
    /\ lookup.internal_name = "name"

\* C4: without the API key, without the feature flag or without the event the
\* request ends 404 before the policy is checked, with no cache read or write and
\* no API call; without the key or the flag the event store is not queried.
C4_NotFound ==
    \A w \in Workers :
        (pc[w] # "idle" /\ ~PassesChecks(req[w])) =>
            /\ pc[w] = "done"
            /\ resp[w].status = 404
            /\ fx[w].policy_checks = 0
            /\ fx[w].cache_gets = 0
            /\ fx[w].cache_sets = 0
            /\ fx[w].api_calls = 0
            /\ apiRequest[w] = NoApiRequest
            /\ (~apiKey \/ ~req[w].flag) => fx[w].store_queries = 0

\* a request for a missing event under a restricting policy, with a live entry cached
C4_Witness ==
    /\ resp["w2"].status = 404
    /\ apiKey /\ req["w2"].flag
    /\ req["w2"].event_id = "e404"
    /\ fx["w2"].store_queries = 1
    /\ LastAnswer(receivers) = "individual_consent"
    /\ Held(<<"ai:", "h1">>) # None

\* C5: a request that passed the feature and event checks gets 403 with body
\* {"restriction": p} exactly when the policy is "subprocessor" or it is
\* "individual_consent" without consent=yes; any other policy proceeds to the
\* cache; a 403 is given without reading or writing the cache or calling the API.
C5_Policy ==
    \A w \in Workers :
        (pc[w] # "idle" /\ PassesChecks(req[w])) =>
            /\ resp[w].status = 403 <=> Restricted(req[w])
            /\ resp[w].status = 403 =>
                  /\ pc[w] = "done"
                  /\ resp[w].body = [restriction |-> LastAnswer(receivers)]
                  /\ fx[w].cache_gets = 0
                  /\ fx[w].cache_sets = 0
                  /\ fx[w].api_calls = 0
                  /\ apiRequest[w] = NoApiRequest
            /\ ~Restricted(req[w]) => fx[w].policy_checks = 1 /\ fx[w].cache_gets = 1

\* consent=no under individual consent is refused although a suggestion is cached
C5_Witness ==
    /\ resp["w2"].status = 403
    /\ req["w2"].event_id = "e1"
    /\ req["w2"].consent = "no"
    /\ resp["w2"].body = [restriction |-> "individual_consent"]
    /\ Held(<<"ai:", "h1">>) # None

\* C6: get_openai_policy returns "allowed" when no receiver answers and otherwise
\* the answer of the last receiver, in send order, that is not None.
C6_LastWins == pol.pc = "done" => pol.result = LastAnswer(pol.results)

\* two receivers answer differently and a third returns None after them
C6_Witness ==
    /\ pol.pc = "done"
    /\ pol.results = <<"subprocessor", "individual_consent", None>>
    /\ pol.result = "individual_consent"

\* C7: trim_frames returns at most frame_allowance frames.
C7_WithinAllowance == trim.pc = "done" => Len(trim.result) <= trim.allowance

\* C8: when the input is longer than frame_allowance and has at most
\* frame_allowance in-app frames, every in-app frame of the input is in the result.
C8_InAppKept ==
    (/\ trim.pc = "done"
     /\ Len(trim.frames) > trim.allowance
     /\ Len(AppFrames(trim.frames)) <= trim.allowance) =>
        \A i \in 1..Len(trim.frames) :
            IsInApp(trim.frames[i]) => trim.frames[i] \in Range(trim.result)

====
